---- MODULE Spec2Model ----
(***************************************************************************)
(* Ground-station flight sequencer: FlightController (the phase state      *)
(* machine of flight_controller.py) driven by telemetry that the           *)
(* RocketClient receive loop (rocket_client.py) writes into the            *)
(* TelemetryStore.                                                         *)
(*                                                                         *)
(* Units.  Telemetry is kept in tenths: pressure in 0.1 bar, altitude in   *)
(* 0.1 m, level in 0.1 %.  Time is kept in ticks of 0.1 s; vertical speed  *)
(* in cm/s (0.1 m per 0.1 s tick = 100 cm/s per unit ratio).               *)
(*                                                                         *)
(* Clock.  now is the reading of time.time().  The controller only ever    *)
(* subtracts two readings (flight_controller.py:62 and :279), so its       *)
(* behaviour does not depend on the epoch: while no reading is retained    *)
(* (apogee_time is None) the epoch is moved along with the clock and now   *)
(* stays put; once apogee_time is recorded every sleep advances now.       *)
(*                                                                         *)
(* Granularity.  Spec and MissionSpec step the controller and take a       *)
(* stored feed frame as one step (_rx_loop).  StoreSpec, SnapshotSpec and   *)
(* RxSpec step the threads of RocketClient one statement at a time, with   *)
(* TelemetryStore._lock, the acknowledgement queue and the stop flag.      *)
(***************************************************************************)
EXTENDS Integers, Sequences, FiniteSets, TLC

VARIABLES
    state,        \* FlightController.state
    apogee_alt,   \* FlightController.apogee_alt   (None until APOGEE)
    apogee_time,  \* FlightController.apogee_time  (None until APOGEE)
    landed,       \* FlightController.landed
    data,         \* TelemetryStore._data: key -> latest value, None if absent
    cmds,         \* frames handed to cm.push/cm.send, in order
    now,          \* time.time()
    slept,        \* time the controller slept since its last command (saturating)
    phase,        \* the phase method being executed ("none" outside one)
    pc,           \* position of the controller thread
    loc,          \* locals of the running phase method
    step,         \* full_auto_mission: number of the current step (0: no mission)
    calls,        \* number of phase methods invoked so far
    entry,        \* what held when the running phase method was invoked
    lock,         \* TelemetryStore._lock: the thread holding it, or "free"
    rx,           \* the receive thread (_rx_loop): position and frame in hand
    rd,           \* threads reading the store: position, call and result
    ack_queue,    \* RocketClient.ack_queue
    stop_flag,    \* RocketClient._stop_flag
    hist          \* history of the receive thread (see NoHistory)

(* The threads of RocketClient, stepped one statement at a time *)
client == <<lock, rx, rd, ack_queue, stop_flag, hist>>

vars == <<state, apogee_alt, apogee_time, landed, data, cmds, now, slept,
          phase, pc, loc, step, calls, entry, client>>

-----------------------------------------------------------------------------
(* Bounds of the model *)

MaxCalls == 2          \* phase methods a direct caller invokes
MaxTime == 112         \* clock horizon of a mission run (11.1 s past apogee)
MaxTimeDirect == 21    \* clock horizon under a direct caller
GapCap == 3            \* saturation of slept

-----------------------------------------------------------------------------
(* Python's None, for Optional fields and absent telemetry *)
None == -99999

(* A stored value that float() rejects with ValueError or TypeError *)
NotANumber == -88888

FlightState ==
    {"IDLE", "TANKING_OX", "OX_READY", "TANKING_FUEL", "FUEL_READY", "HEATING",
     "ARMED", "IGNITION_SEQUENCE", "BOOST", "ASCENT", "COAST", "APOGEE",
     "DESCENT", "CHUTE_DEPLOYED", "LANDED", "ABORT"}

Abs(x) == IF x < 0 THEN -x ELSE x
Min(a, b) == IF a < b THEN a ELSE b

-----------------------------------------------------------------------------
(* Thresholds and pacing of the controller *)

(* Mutant: a tank counts as full only above 100.0 % *)
LEVEL_FULL_exceeded == 1000 + 1
LEVEL_FULL == 1000          \* 100.0 %
HEAT_WINDOW_LO == 550       \* 55.0 bar
HEAT_WINDOW_HI == 650       \* 65.0 bar
HEAT_ABORT == 900           \* 90.0 bar
IGN_P_MIN == 400            \* 40.0 bar
IGN_P_MAX == 650            \* 65.0 bar
SERVO_TOL == 5              \* raw servo units
ARM_RISE == 10              \* 1.0 m
LOW_APOGEE == 50            \* 5.0 m
CHUTE_MAX_ALT == 2000       \* 200.0 m
CHUTE_MAX_SPEED == 3000     \* 30.0 m/s, in cm/s
(* Mutant: the failsafe fires only after 10.0 s *)
CHUTE_TIMEOUT_10s == 90 + 10
CHUTE_TIMEOUT == 90         \* 9.0 s
LANDED_DELTA == 5           \* 0.5 m
TANK_POLL == 2              \* 0.2 s
HEAT_POLL == 2              \* 0.2 s
IGN_STAGGER == 2            \* 0.2 s
CLIMB_POLL == 5             \* 0.5 s
DESCENT_SAMPLE == 5         \* 0.5 s
DESCENT_POLL == 5           \* 0.5 s
LANDING_SAMPLE == 10        \* 1.0 s

-----------------------------------------------------------------------------
(* Device configuration (simulator_config.yaml, read by RocketClient) *)

Servos == {"fuel_intake", "oxidizer_intake", "fuel_main", "oxidizer_main"}
servo_open_pos == [s \in Servos |-> 100]
servo_closed_pos == [s \in Servos |-> 0]

Sensors == {"oxidizer_level", "fuel_level", "oxidizer_pressure", "altitude"}
PosKey(s) == IF s = "fuel_intake" THEN "fuel_intake_pos"
             ELSE IF s = "oxidizer_intake" THEN "oxidizer_intake_pos"
             ELSE IF s = "fuel_main" THEN "fuel_main_pos"
             ELSE "oxidizer_main_pos"
Keys == Sensors \cup {PosKey(s) : s \in Servos}

(* Payloads the feed frames carry in this model *)
FeedValues(k) ==
    IF k \in {"oxidizer_level", "fuel_level"} THEN {999, 1000}
    ELSE IF k = "oxidizer_pressure" THEN {400, 550, 650, 651, 900}
    ELSE IF k = "altitude" THEN {10, 11, 45, 50, 1849, 1999, 2000}
    ELSE {-5, 4, 5}

-----------------------------------------------------------------------------
(* TelemetryStore and the reads of the controller *)

StoreGet(key, default) == IF data[key] = None THEN default ELSE data[key]

(* float(val) succeeds *)
Coercible(val) == val # None /\ val # NotANumber

_telem(key, default) ==
    LET val == StoreGet(key, default)
    IN  IF Coercible(val) THEN val ELSE default

oxidizer_level == _telem("oxidizer_level", 0)
fuel_level == _telem("fuel_level", 0)
oxidizer_pressure == _telem("oxidizer_pressure", 0)
altitude == _telem("altitude", 0)

(* Mutant: a position exactly 5 units off still counts as closed *)
servo_is_closed_at_tolerance(servo_name) ==
    LET pos == _telem(PosKey(servo_name), None)
    IN  IF pos = None THEN FALSE
        ELSE Abs(pos - servo_closed_pos[servo_name]) <= SERVO_TOL

servo_is_closed(servo_name) ==
    LET pos == _telem(PosKey(servo_name), None)
    IN  IF pos = None THEN FALSE
        ELSE Abs(pos - servo_closed_pos[servo_name]) < SERVO_TOL

(* (h2 - h1) / max(t2 - t1, 1e-6), in cm/s, truncated toward zero *)
vertical_speed(h1, t1, h2, t2) ==
    LET dh == h2 - h1
        mag == IF t2 - t1 > 0 THEN (Abs(dh) * 100) \div (t2 - t1)
               ELSE Abs(dh) * 10000000
    IN  IF dh < 0 THEN -mag ELSE mag

-----------------------------------------------------------------------------
(* Clock and command channel *)

ClockRuns == apogee_time # None

Horizon == IF step = 0 THEN MaxTimeDirect ELSE MaxTime
CanSleep(d) == ClockRuns => now + d <= Horizon
Slept(d) == Min(slept + d, GapCap)
After(d) == IF ClockRuns THEN now + d ELSE now

Frame(op, dev, arg) == [op |-> op, dev |-> dev, arg |-> arg]

(* arm_alt and peak are history, kept while climb_and_detect_apogee polls: *)
(* the reading that ended its arming loop, for as long as no tracked       *)
(* reading has reached it, and the highest reading of its tracking loop    *)
NoLocals == [p |-> None, fuel_closed |-> FALSE, ox_closed |-> FALSE,
             start_alt |-> None, last_alt |-> None,
             h1 |-> None, t1 |-> None, v_down |-> None, alt1 |-> None,
             arm_alt |-> None, peak |-> None]

-----------------------------------------------------------------------------
(* Frames the channel delivers to cm.receive, and the threads of the client *)

Feed(kind, dev, value) == [kind |-> kind, dev |-> dev, value |-> value]
NoFrame == Feed("none", "none", None)
ReceiveTimeout == Feed("timeout", "none", None)

(* Frames delivered in this model: an altitude feed, a fuel_intake position *)
(* feed, and two frames no callback is registered for.                      *)
InFrames ==
    {Feed("sensor", "altitude", v) : v \in {10, 11}}
      \cup {Feed("servo", "fuel_intake", v) : v \in {-5, 4, 5, NotANumber}}
      \cup {Feed("servo_ack", "fuel_intake", 0), Feed("sensor", "angle", 7)}

Readers == {"r1", "r2"}
NoSnapshot == [alias |-> FALSE, map |-> <<>>, orig |-> <<>>, ver |-> -1,
               dirty |-> FALSE]
NoCall == [pc |-> "idle", op |-> "none", key |-> "none", default |-> None,
           ret |-> None, closed |-> FALSE, snap |-> NoSnapshot]

(* completed: value of the last completed update per key; received: frames *)
(* cm.receive has delivered; stored: updates completed; after_stop: frames *)
(* stored or queued since stop() was called                                *)
NoHistory == [completed |-> [k \in Keys |-> None], received |-> 0,
              stored |-> 0, after_stop |-> 0]

-----------------------------------------------------------------------------
(* State after FlightController(client) is constructed *)

InitCommon ==
    /\ state = "IDLE"
    /\ apogee_alt = None
    /\ apogee_time = None
    /\ landed = FALSE
    /\ data = [k \in Keys |-> None]
    /\ cmds = <<>>
    /\ now = 1
    /\ slept = 0
    /\ phase = "none"
    /\ pc = "idle"
    /\ loc = NoLocals
    /\ calls = 0
    /\ entry = [state |-> "IDLE", ncmds |-> 0]
    /\ lock = "free"
    /\ rx = [pc |-> "test", frame |-> NoFrame]
    /\ rd = [t \in Readers |-> NoCall]
    /\ ack_queue = <<>>
    /\ stop_flag = FALSE
    /\ hist = NoHistory

(* A caller that invokes phase methods one at a time, in any order *)
Init == InitCommon /\ step = 0

(* launch_sequencer.main: the caller runs full_auto_mission once *)
InitMission == InitCommon /\ step = 1

(* The n-th phase may be invoked: by full_auto_mission at its n-th step,  *)
(* or by a direct caller that has invocations left.                       *)
CanCall(n) ==
    /\ pc = "idle"
    /\ IF step = 0 THEN calls < MaxCalls ELSE step = n

Invoke(name) ==
    /\ phase' = name
    /\ calls' = IF step = 0 THEN calls + 1 ELSE calls
    /\ entry' = [state |-> state, ncmds |-> Len(cmds)]
    /\ step' = step
    /\ UNCHANGED client

Send(op, dev, arg) ==
    /\ cmds' = Append(cmds, Frame(op, dev, arg))
    /\ slept' = 0

set_servo_position(servo_name, position) ==
    Send("set_servo_position", servo_name, position)
relay_open(relay_name) == Send("relay_open", relay_name, None)
relay_close(relay_name) == Send("relay_close", relay_name, None)

Sleep(d) ==
    /\ CanSleep(d)
    /\ now' = After(d)
    /\ slept' = Slept(d)

Running(name, at) == phase = name /\ pc = at
SameCall == UNCHANGED <<phase, step, calls, entry, client>>

-----------------------------------------------------------------------------
(* tank_oxidizer / tank_fuel *)

tank_oxidizer_call ==
    /\ CanCall(1)
    /\ Invoke("tank_oxidizer")
    /\ state' = "TANKING_OX"
    /\ set_servo_position("oxidizer_intake", servo_open_pos["oxidizer_intake"])
    /\ pc' = "poll"
    /\ UNCHANGED <<apogee_alt, apogee_time, landed, data, now, loc>>

tank_oxidizer_poll ==
    /\ Running("tank_oxidizer", "poll")
    /\ IF oxidizer_level < LEVEL_FULL
       THEN /\ Sleep(TANK_POLL)
            /\ UNCHANGED <<state, cmds, pc>>
       ELSE /\ set_servo_position("oxidizer_intake",
                                  servo_closed_pos["oxidizer_intake"])
            /\ state' = "OX_READY"
            /\ pc' = "returned"
            /\ now' = now
    /\ SameCall
    /\ UNCHANGED <<apogee_alt, apogee_time, landed, data, loc>>

tank_fuel_call ==
    /\ CanCall(2)
    /\ Invoke("tank_fuel")
    /\ state' = "TANKING_FUEL"
    /\ set_servo_position("fuel_intake", servo_open_pos["fuel_intake"])
    /\ pc' = "poll"
    /\ UNCHANGED <<apogee_alt, apogee_time, landed, data, now, loc>>

tank_fuel_poll ==
    /\ Running("tank_fuel", "poll")
    /\ IF fuel_level < LEVEL_FULL
       THEN /\ Sleep(TANK_POLL)
            /\ UNCHANGED <<state, cmds, pc>>
       ELSE /\ set_servo_position("fuel_intake", servo_closed_pos["fuel_intake"])
            /\ state' = "FUEL_READY"
            /\ pc' = "returned"
            /\ now' = now
    /\ SameCall
    /\ UNCHANGED <<apogee_alt, apogee_time, landed, data, loc>>

-----------------------------------------------------------------------------
(* heat_oxidizer *)

heat_oxidizer_call ==
    /\ CanCall(3)
    /\ Invoke("heat_oxidizer")
    /\ state' = "HEATING"
    /\ relay_open("oxidizer_heater")
    /\ pc' = "poll"
    /\ UNCHANGED <<apogee_alt, apogee_time, landed, data, now, loc>>

InHeatWindow(p) == HEAT_WINDOW_LO <= p /\ p <= HEAT_WINDOW_HI

(* Mutant: a reading of exactly 90.0 bar is not an overpressure *)
HeatOverpressure_strict(p) == p > HEAT_ABORT

HeatOverpressure(p) == p >= HEAT_ABORT

heat_oxidizer_poll ==
    /\ Running("heat_oxidizer", "poll")
    /\ LET p == oxidizer_pressure
       IN  /\ loc' = [loc EXCEPT !.p = p]
           /\ IF InHeatWindow(p)
              THEN /\ pc' = "heater_off"
                   /\ UNCHANGED <<state, now, slept>>
              ELSE IF HeatOverpressure(p)
              THEN /\ state' = "ABORT"
                   /\ pc' = "heater_off"
                   /\ UNCHANGED <<now, slept>>
              ELSE /\ Sleep(HEAT_POLL)
                   /\ UNCHANGED <<state, pc>>
    /\ SameCall
    /\ UNCHANGED <<apogee_alt, apogee_time, landed, data, cmds>>

(* Mutant: after an abort the phase returns without closing the heater *)
heat_oxidizer_heater_off_unless_abort ==
    /\ Running("heat_oxidizer", "heater_off")
    /\ IF state = "ABORT"
       THEN UNCHANGED <<cmds, slept>>
       ELSE relay_close("oxidizer_heater")
    /\ pc' = "exit"
    /\ SameCall
    /\ UNCHANGED <<state, apogee_alt, apogee_time, landed, data, now, loc>>

heat_oxidizer_heater_off ==
    /\ Running("heat_oxidizer", "heater_off")
    /\ relay_close("oxidizer_heater")
    /\ pc' = "exit"
    /\ SameCall
    /\ UNCHANGED <<state, apogee_alt, apogee_time, landed, data, now, loc>>

(* Mutant: ARMED is set whatever the poll loop decided *)
HeatExitState_always_armed == "ARMED"

HeatExitState == IF state # "ABORT" THEN "ARMED" ELSE state

heat_oxidizer_exit ==
    /\ Running("heat_oxidizer", "exit")
    /\ state' = HeatExitState
    /\ pc' = "returned"
    /\ SameCall
    /\ UNCHANGED <<apogee_alt, apogee_time, landed, data, cmds, now, slept, loc>>

-----------------------------------------------------------------------------
(* ignition_sequence *)

IgnAbort ==
    /\ state' = "ABORT"
    /\ pc' = "returned"

ignition_sequence_call ==
    /\ CanCall(4)
    /\ Invoke("ignition_sequence")
    /\ IF state = "ABORT"
       THEN /\ pc' = "returned"
            /\ state' = state
       ELSE /\ state' = "IGNITION_SEQUENCE"
            /\ pc' = "check_fuel_intake"
    /\ UNCHANGED <<apogee_alt, apogee_time, landed, data, cmds, now, slept, loc>>

ignition_sequence_check_fuel_intake ==
    /\ Running("ignition_sequence", "check_fuel_intake")
    /\ IF ~servo_is_closed("fuel_intake")
       THEN IgnAbort /\ loc' = loc
       ELSE /\ loc' = [loc EXCEPT !.fuel_closed = TRUE]
            /\ pc' = "check_oxidizer_intake"
            /\ state' = state
    /\ SameCall
    /\ UNCHANGED <<apogee_alt, apogee_time, landed, data, cmds, now, slept>>

ignition_sequence_check_oxidizer_intake ==
    /\ Running("ignition_sequence", "check_oxidizer_intake")
    /\ IF ~servo_is_closed("oxidizer_intake")
       THEN IgnAbort /\ loc' = loc
       ELSE /\ loc' = [loc EXCEPT !.ox_closed = TRUE]
            /\ pc' = "check_pressure"
            /\ state' = state
    /\ SameCall
    /\ UNCHANGED <<apogee_alt, apogee_time, landed, data, cmds, now, slept>>

IgnPressureTooLow(p) == p < IGN_P_MIN

(* Mutant: the upper end of the ignition window is excluded *)
IgnPressureTooHigh_inclusive(p) == p >= IGN_P_MAX

IgnPressureTooHigh(p) == p > IGN_P_MAX

ignition_sequence_check_pressure ==
    /\ Running("ignition_sequence", "check_pressure")
    /\ LET p == oxidizer_pressure
       IN  /\ loc' = [loc EXCEPT !.p = p]
           /\ IF IgnPressureTooLow(p) THEN IgnAbort
              ELSE IF IgnPressureTooHigh(p) THEN IgnAbort
              ELSE pc' = "open_fuel_main" /\ state' = state
    /\ SameCall
    /\ UNCHANGED <<apogee_alt, apogee_time, landed, data, cmds, now, slept>>

(* Mutant: the oxidizer main valve is commanded open first *)
ignition_sequence_open_fuel_main_swapped ==
    /\ Running("ignition_sequence", "open_fuel_main")
    /\ set_servo_position("oxidizer_main", servo_open_pos["oxidizer_main"])
    /\ pc' = "stagger_1"
    /\ SameCall
    /\ UNCHANGED <<state, apogee_alt, apogee_time, landed, data, now, loc>>

ignition_sequence_open_fuel_main ==
    /\ Running("ignition_sequence", "open_fuel_main")
    /\ set_servo_position("fuel_main", servo_open_pos["fuel_main"])
    /\ pc' = "stagger_1"
    /\ SameCall
    /\ UNCHANGED <<state, apogee_alt, apogee_time, landed, data, now, loc>>

ignition_sequence_stagger_1 ==
    /\ Running("ignition_sequence", "stagger_1")
    /\ Sleep(IGN_STAGGER)
    /\ pc' = "open_oxidizer_main"
    /\ SameCall
    /\ UNCHANGED <<state, apogee_alt, apogee_time, landed, data, cmds, loc>>

ignition_sequence_open_oxidizer_main ==
    /\ Running("ignition_sequence", "open_oxidizer_main")
    /\ set_servo_position("oxidizer_main", servo_open_pos["oxidizer_main"])
    /\ pc' = "stagger_2"
    /\ SameCall
    /\ UNCHANGED <<state, apogee_alt, apogee_time, landed, data, now, loc>>

ignition_sequence_stagger_2 ==
    /\ Running("ignition_sequence", "stagger_2")
    /\ Sleep(IGN_STAGGER)
    /\ pc' = "enable_igniter"
    /\ SameCall
    /\ UNCHANGED <<state, apogee_alt, apogee_time, landed, data, cmds, loc>>

ignition_sequence_enable_igniter ==
    /\ Running("ignition_sequence", "enable_igniter")
    /\ relay_open("igniter")
    /\ pc' = "boost"
    /\ SameCall
    /\ UNCHANGED <<state, apogee_alt, apogee_time, landed, data, now, loc>>

ignition_sequence_boost ==
    /\ Running("ignition_sequence", "boost")
    /\ state' = "BOOST"
    /\ pc' = "returned"
    /\ SameCall
    /\ UNCHANGED <<apogee_alt, apogee_time, landed, data, cmds, now, slept, loc>>

-----------------------------------------------------------------------------
(* climb_and_detect_apogee *)

climb_and_detect_apogee_call ==
    /\ CanCall(5)
    /\ Invoke("climb_and_detect_apogee")
    /\ IF state = "ABORT"
       THEN /\ pc' = "returned"
            /\ state' = state
       ELSE /\ state' = "ASCENT"
            /\ pc' = "start"
    /\ UNCHANGED <<apogee_alt, apogee_time, landed, data, cmds, now, slept, loc>>

climb_and_detect_apogee_start ==
    /\ Running("climb_and_detect_apogee", "start")
    /\ loc' = [loc EXCEPT !.start_alt = altitude]
    /\ pc' = "arm"
    /\ SameCall
    /\ UNCHANGED <<state, apogee_alt, apogee_time, landed, data, cmds, now, slept>>

Armed(alt_now, start_alt) == alt_now - start_alt > ARM_RISE

climb_and_detect_apogee_arm ==
    /\ Running("climb_and_detect_apogee", "arm")
    /\ Sleep(CLIMB_POLL)
    /\ IF Armed(altitude, loc.start_alt)
       THEN pc' = "track_start" /\ loc' = [loc EXCEPT !.arm_alt = altitude]
       ELSE pc' = "arm" /\ loc' = loc
    /\ SameCall
    /\ UNCHANGED <<state, apogee_alt, apogee_time, landed, data, cmds>>

(* The arming reading, until a tracked reading is at least as high *)
Outstanding(arm_alt, tracked) == IF tracked >= arm_alt THEN None ELSE arm_alt

climb_and_detect_apogee_track_start ==
    /\ Running("climb_and_detect_apogee", "track_start")
    /\ loc' = [loc EXCEPT !.last_alt = altitude, !.peak = altitude,
                          !.arm_alt = Outstanding(loc.arm_alt, altitude)]
    /\ pc' = "track"
    /\ SameCall
    /\ UNCHANGED <<state, apogee_alt, apogee_time, landed, data, cmds, now, slept>>

Max(a, b) == IF a > b THEN a ELSE b

(* Mutant: a reading equal to the last one already counts as descending *)
Descending_or_level(alt_now, last_alt) == alt_now <= last_alt

Descending(alt_now, last_alt) == alt_now < last_alt

climb_and_detect_apogee_track ==
    /\ Running("climb_and_detect_apogee", "track")
    /\ Sleep(CLIMB_POLL)
    /\ IF Descending(altitude, loc.last_alt)
       THEN /\ apogee_alt' = loc.last_alt
            /\ apogee_time' = now'
            /\ state' = "APOGEE"
            /\ pc' = "returned"
            /\ loc' = [loc EXCEPT !.arm_alt = None, !.peak = None]
       ELSE /\ loc' = [loc EXCEPT !.last_alt = altitude,
                                   !.peak = Max(loc.peak, altitude),
                                   !.arm_alt = Outstanding(loc.arm_alt, altitude)]
            /\ UNCHANGED <<apogee_alt, apogee_time, state, pc>>
    /\ SameCall
    /\ UNCHANGED <<landed, data, cmds>>

-----------------------------------------------------------------------------
(* descent_and_chute *)

(* Python's  x or y  on an Optional number: y when x is None or 0 *)
Or(x, y) == IF x = None \/ x = 0 THEN y ELSE x

(* Mutant: an unrecorded apogee is not taken for a low one *)
LowApogee_recorded_only == apogee_alt # None /\ apogee_alt < LOW_APOGEE

LowApogee == Or(apogee_alt, 0) < LOW_APOGEE

descent_and_chute_call ==
    /\ CanCall(6)
    /\ Invoke("descent_and_chute")
    /\ IF state = "ABORT"
       THEN /\ pc' = "returned"
            /\ UNCHANGED <<state, landed>>
       ELSE IF LowApogee
       THEN /\ state' = "LANDED"
            /\ landed' = TRUE
            /\ pc' = "returned"
       ELSE /\ state' = "DESCENT"
            /\ pc' = "sample_1"
            /\ landed' = landed
    /\ UNCHANGED <<apogee_alt, apogee_time, data, cmds, now, slept, loc>>

(* vertical_speed(sample_dt=0.5): first altitude sample *)
descent_and_chute_sample_1 ==
    /\ Running("descent_and_chute", "sample_1")
    /\ loc' = [loc EXCEPT !.h1 = altitude, !.t1 = now]
    /\ pc' = "sample_2"
    /\ SameCall
    /\ UNCHANGED <<state, apogee_alt, apogee_time, landed, data, cmds, now, slept>>

(* vertical_speed: sleep, second sample, rate; the samples are dead after it *)
descent_and_chute_sample_2 ==
    /\ Running("descent_and_chute", "sample_2")
    /\ Sleep(DESCENT_SAMPLE)
    /\ loc' = [loc EXCEPT
                 !.v_down = Abs(vertical_speed(loc.h1, loc.t1, altitude, now')),
                 !.h1 = None, !.t1 = None]
    /\ pc' = "decide"
    /\ SameCall
    /\ UNCHANGED <<state, apogee_alt, apogee_time, landed, data, cmds>>

LowEnough(alt_now) == alt_now < CHUTE_MAX_ALT

(* Mutant: exactly 30.0 m/s is not a safe speed *)
SafeSpeed_strict(v_down) == v_down < CHUTE_MAX_SPEED

SafeSpeed(v_down) == v_down <= CHUTE_MAX_SPEED
SinceApogee == now - Or(apogee_time, now)
Timeout(t_since_apogee) == t_since_apogee > CHUTE_TIMEOUT

(* Mutant: the speed gate is left out of the deploy condition *)
Deploy_no_speed_gate(v_down, alt_now, t_since_apogee) ==
    LowEnough(alt_now) \/ Timeout(t_since_apogee)

Deploy(v_down, alt_now, t_since_apogee) ==
    (SafeSpeed(v_down) /\ LowEnough(alt_now)) \/ Timeout(t_since_apogee)

descent_and_chute_decide ==
    /\ Running("descent_and_chute", "decide")
    /\ IF Deploy(loc.v_down, altitude, SinceApogee)
       THEN /\ relay_open("parachute")
            /\ state' = "CHUTE_DEPLOYED"
            /\ pc' = "landing_1"
            /\ UNCHANGED <<now, loc>>
       ELSE /\ Sleep(DESCENT_POLL)
            /\ pc' = "sample_1"
            /\ loc' = [loc EXCEPT !.v_down = None]
            /\ UNCHANGED <<state, cmds>>
    /\ SameCall
    /\ UNCHANGED <<apogee_alt, apogee_time, landed, data>>

descent_and_chute_landing_1 ==
    /\ Running("descent_and_chute", "landing_1")
    /\ loc' = [loc EXCEPT !.alt1 = altitude, !.v_down = None]
    /\ pc' = "landing_2"
    /\ SameCall
    /\ UNCHANGED <<state, apogee_alt, apogee_time, landed, data, cmds, now, slept>>

(* Mutant: a pair of samples exactly 0.5 m apart already counts as landed *)
Settled_inclusive(alt1, alt2) == Abs(alt2 - alt1) <= LANDED_DELTA

Settled(alt1, alt2) == Abs(alt2 - alt1) < LANDED_DELTA

descent_and_chute_landing_2 ==
    /\ Running("descent_and_chute", "landing_2")
    /\ Sleep(LANDING_SAMPLE)
    /\ IF Settled(loc.alt1, altitude)
       THEN /\ state' = "LANDED"
            /\ landed' = TRUE
            /\ pc' = "returned"
       ELSE /\ pc' = "landing_1"
            /\ UNCHANGED <<state, landed>>
    /\ loc' = [loc EXCEPT !.alt1 = None]
    /\ SameCall
    /\ UNCHANGED <<apogee_alt, apogee_time, data, cmds>>

-----------------------------------------------------------------------------
(* The callers *)

(* A phase method invoked directly has returned to its caller *)
Returned ==
    /\ step = 0
    /\ pc = "returned"
    /\ pc' = "idle"
    /\ phase' = "none"
    /\ loc' = NoLocals
    /\ UNCHANGED <<state, apogee_alt, apogee_time, landed, data, cmds, now,
                   slept, step, calls, entry, client>>

LastStep == 6

(* Mutant: the mission does not test for ABORT between its steps *)
MissionStops_after_last_only == step = LastStep

MissionStops == state = "ABORT" \/ step = LastStep

(* full_auto_mission: after each phase, stop on ABORT, else the next step *)
full_auto_mission ==
    /\ step > 0
    /\ pc = "returned"
    /\ IF MissionStops
       THEN pc' = "done" /\ step' = step
       ELSE pc' = "idle" /\ step' = step + 1
    /\ phase' = "none"
    /\ loc' = NoLocals
    /\ UNCHANGED <<state, apogee_alt, apogee_time, landed, data, cmds, now,
                   slept, calls, entry, client>>

-----------------------------------------------------------------------------
(* RocketClient._rx_loop: one received feed frame, stored by its callback. *)
(* A feed value is seen by the controller only when it next reads that     *)
(* key, so the frames modelled are those of keys the running phase method  *)
(* has yet to read.                                                        *)

Watched ==
    IF phase = "tank_oxidizer" /\ pc = "poll" THEN {"oxidizer_level"}
    ELSE IF phase = "tank_fuel" /\ pc = "poll" THEN {"fuel_level"}
    ELSE IF phase = "heat_oxidizer" /\ pc = "poll" THEN {"oxidizer_pressure"}
    ELSE IF phase = "ignition_sequence" /\ pc = "check_fuel_intake"
    THEN {"fuel_intake_pos", "oxidizer_intake_pos", "oxidizer_pressure"}
    ELSE IF phase = "ignition_sequence" /\ pc = "check_oxidizer_intake"
    THEN {"oxidizer_intake_pos", "oxidizer_pressure"}
    ELSE IF phase = "ignition_sequence" /\ pc = "check_pressure"
    THEN {"oxidizer_pressure"}
    ELSE IF phase \in {"climb_and_detect_apogee", "descent_and_chute"}
            /\ pc # "returned"
    THEN {"altitude"}
    ELSE {}

StoreUpdate(key, value) == data' = [data EXCEPT ![key] = value]

_rx_loop ==
    /\ \E key \in Watched : \E value \in FeedValues(key) :
          StoreUpdate(key, value)
    /\ UNCHANGED <<state, apogee_alt, apogee_time, landed, cmds, now, slept,
                   phase, pc, loc, step, calls, entry, client>>

-----------------------------------------------------------------------------
(* TelemetryStore under its lock, one statement per step.  The receive     *)
(* thread is the only caller of update; the readers call get, get_all and  *)
(* servo_is_closed (which reads through _telem and get).                   *)

MaxFrames == 3         \* frames cm.receive delivers (timeouts are not counted)

(* Mutant: the critical section is entered without taking the lock *)
Acquire_unlocked(t) == lock' = lock

(* with self._lock: entry blocks until the lock is free *)
Acquire(t) == lock = "free" /\ lock' = t
Release(t) == lock' = "free"

(* Mutant: get_all hands out the store's own dictionary *)
Snapshot_shared(d) ==
    [alias |-> TRUE, map |-> d, orig |-> d, ver |-> hist.stored,
     dirty |-> FALSE]

(* dict(self._data): a new dictionary with the entries of the store; orig, *)
(* ver and dirty are history (the entries copied, the number of updates    *)
(* completed by then, whether the caller has written to the copy)          *)
Snapshot(d) ==
    [alias |-> FALSE, map |-> d, orig |-> d, ver |-> hist.stored,
     dirty |-> FALSE]

(* The entries the holder of a returned dictionary reads in it *)
ViewOf(snap, store) == IF snap.alias THEN store ELSE snap.map

ClientKeys == {"altitude", "fuel_intake_pos"}
Defaults == {None, 0}
ReaderIdle == UNCHANGED <<state, apogee_alt, apogee_time, landed, cmds, now,
                          slept, phase, pc, loc, step, calls, entry, rx,
                          ack_queue, stop_flag, hist>>

(* get_telem(key, default) -> TelemetryStore.get(key, default) is called *)
get_call(t) ==
    /\ rd[t].pc = "idle"
    /\ \E key \in ClientKeys : \E default \in Defaults :
          rd' = [rd EXCEPT ![t] = [NoCall EXCEPT !.pc = "acquire",
                      !.op = "get", !.key = key, !.default = default,
                      !.snap = rd[t].snap]]
    /\ ReaderIdle
    /\ UNCHANGED <<data, lock>>

(* servo_is_closed(fuel_intake) is called: _telem(name + "_pos", None) *)
servo_is_closed_call(t) ==
    /\ rd[t].pc = "idle"
    /\ rd' = [rd EXCEPT ![t] = [NoCall EXCEPT !.pc = "acquire",
                  !.op = "servo_is_closed", !.key = PosKey("fuel_intake"),
                  !.snap = rd[t].snap]]
    /\ ReaderIdle
    /\ UNCHANGED <<data, lock>>

(* get_all_telem() -> TelemetryStore.get_all() is called *)
get_all_call(t) ==
    /\ rd[t].pc = "idle"
    /\ rd' = [rd EXCEPT ![t] = [NoCall EXCEPT !.pc = "acquire",
                  !.op = "get_all"]]
    /\ ReaderIdle
    /\ UNCHANGED <<data, lock>>

reader_acquire(t) ==
    /\ rd[t].pc = "acquire"
    /\ Acquire(t)
    /\ rd' = [rd EXCEPT ![t].pc = "read"]
    /\ ReaderIdle
    /\ UNCHANGED data

(* return self._data.get(key, default), and what servo_is_closed makes of it *)
get_read(t) ==
    /\ rd[t].pc = "read"
    /\ rd[t].op \in {"get", "servo_is_closed"}
    /\ rd' = [rd EXCEPT ![t].pc = "release",
                        ![t].ret = StoreGet(rd[t].key, rd[t].default),
                        ![t].closed = IF rd[t].op = "servo_is_closed"
                                      THEN servo_is_closed("fuel_intake")
                                      ELSE FALSE]
    /\ ReaderIdle
    /\ UNCHANGED <<data, lock>>

(* return dict(self._data) *)
get_all_read(t) ==
    /\ rd[t].pc = "read"
    /\ rd[t].op = "get_all"
    /\ rd' = [rd EXCEPT ![t].pc = "release", ![t].snap = Snapshot(data)]
    /\ ReaderIdle
    /\ UNCHANGED <<data, lock>>

(* the with block is left and the call returns *)
reader_release(t) ==
    /\ rd[t].pc = "release"
    /\ Release(t)
    /\ rd' = [rd EXCEPT ![t] = [NoCall EXCEPT !.snap = rd[t].snap]]
    /\ ReaderIdle
    /\ UNCHANGED data

(* The caller writes an entry of the dictionary get_all handed to it *)
snapshot_write(t) ==
    /\ rd[t].pc = "idle"
    /\ rd[t].snap.ver >= 0
    /\ ~rd[t].snap.dirty
    /\ IF rd[t].snap.alias
       THEN /\ data' = [data EXCEPT !["altitude"] = 77]
            /\ rd' = [rd EXCEPT ![t].snap.dirty = TRUE]
       ELSE /\ data' = data
            /\ rd' = [rd EXCEPT ![t].snap.dirty = TRUE,
                                ![t].snap.map["altitude"] = 77]
    /\ ReaderIdle
    /\ UNCHANGED lock

-----------------------------------------------------------------------------
(* RocketClient._rx_loop and stop, one statement per step *)

RxIdle == UNCHANGED <<state, apogee_alt, apogee_time, landed, cmds, now,
                      slept, phase, pc, loc, step, calls, entry, rd,
                      stop_flag>>

(* Mutant: the loop does not look at the stop flag *)
LoopContinues_regardless == TRUE

(* while not self._stop_flag *)
LoopContinues == ~stop_flag

_rx_loop_test ==
    /\ rx.pc = "test"
    /\ rx' = [rx EXCEPT !.pc = IF LoopContinues THEN "receive" ELSE "exited"]
    /\ RxIdle
    /\ UNCHANGED <<data, lock, ack_queue, hist>>

(* cm.receive matches the frame against the patterns registered for every *)
(* sensor and every servo of the configuration                            *)
Registered(frame) ==
    \/ frame.kind = "sensor" /\ frame.dev \in Sensors
    \/ frame.kind = "servo" /\ frame.dev \in Servos

(* The key the callback registered for the frame's device stores under *)
CallbackKey(frame) ==
    IF frame.kind = "sensor" THEN frame.dev ELSE PosKey(frame.dev)

Applied == IF stop_flag THEN hist.after_stop + 1 ELSE hist.after_stop

(* Mutant: a frame without a callback is discarded *)
OnUnregistered_discarded(frame) ==
    /\ ack_queue' = ack_queue
    /\ hist' = [hist EXCEPT !.received = hist.received + 1]

(* except UnregisteredCallbackError as e: self.ack_queue.put(e.frame) *)
OnUnregistered(frame) ==
    /\ ack_queue' = Append(ack_queue, frame)
    /\ hist' = [hist EXCEPT !.received = hist.received + 1,
                            !.after_stop = Applied]

(* self.cm.receive() returns: a timeout, a frame without a callback, or a *)
(* frame whose callback is entered                                        *)
_rx_loop_receive ==
    /\ rx.pc = "receive"
    /\ \E frame \in InFrames \cup {ReceiveTimeout} :
          IF frame = ReceiveTimeout
          THEN /\ rx' = [rx EXCEPT !.pc = "sleep"]
               /\ UNCHANGED <<ack_queue, hist>>
          ELSE /\ hist.received < MaxFrames
               /\ IF Registered(frame)
                  THEN /\ rx' = [pc |-> "acquire", frame |-> frame]
                       /\ hist' = [hist EXCEPT !.received = hist.received + 1]
                       /\ ack_queue' = ack_queue
                  ELSE /\ rx' = [rx EXCEPT !.pc = "sleep"]
                       /\ OnUnregistered(frame)
    /\ RxIdle
    /\ UNCHANGED <<data, lock>>

(* _cb -> self.telemetry.update(name, frame.payload[0]): with self._lock *)
update_acquire ==
    /\ rx.pc = "acquire"
    /\ Acquire("rx")
    /\ rx' = [rx EXCEPT !.pc = "write"]
    /\ RxIdle
    /\ UNCHANGED <<data, ack_queue, hist>>

(* self._data[key] = value *)
update_write ==
    /\ rx.pc = "write"
    /\ StoreUpdate(CallbackKey(rx.frame), rx.frame.value)
    /\ rx' = [rx EXCEPT !.pc = "release"]
    /\ RxIdle
    /\ UNCHANGED <<lock, ack_queue, hist>>

(* the with block is left: the update is complete *)
update_release ==
    /\ rx.pc = "release"
    /\ Release("rx")
    /\ hist' = [hist EXCEPT
                  !.completed[CallbackKey(rx.frame)] = rx.frame.value,
                  !.stored = hist.stored + 1,
                  !.after_stop = Applied]
    /\ rx' = [pc |-> "sleep", frame |-> NoFrame]
    /\ RxIdle
    /\ UNCHANGED <<data, ack_queue>>

(* time.sleep(0.01), then the loop test again *)
_rx_loop_sleep ==
    /\ rx.pc = "sleep"
    /\ rx' = [rx EXCEPT !.pc = "test"]
    /\ RxIdle
    /\ UNCHANGED <<data, lock, ack_queue, hist>>

(* stop(): self._stop_flag = True *)
stop ==
    /\ stop_flag' = TRUE
    /\ UNCHANGED <<state, apogee_alt, apogee_time, landed, data, cmds, now,
                   slept, phase, pc, loc, step, calls, entry, lock, rx, rd,
                   ack_queue, hist>>

StoreGets(t) ==
    \/ get_call(t)
    \/ servo_is_closed_call(t)
    \/ reader_acquire(t)
    \/ get_read(t)
    \/ reader_release(t)

StoreSnapshots(t) ==
    \/ get_all_call(t)
    \/ reader_acquire(t)
    \/ get_all_read(t)
    \/ reader_release(t)
    \/ snapshot_write(t)

RxThread ==
    \/ _rx_loop_test
    \/ _rx_loop_receive
    \/ update_acquire
    \/ update_write
    \/ update_release
    \/ _rx_loop_sleep

(* The receive thread and callers of get and servo_is_closed *)
NextStore == RxThread \/ \E t \in Readers : StoreGets(t)
StoreSpec == Init /\ [][NextStore]_vars

(* The receive thread and callers of get_all *)
NextSnapshot == RxThread \/ \E t \in Readers : StoreSnapshots(t)
SnapshotSpec == Init /\ [][NextSnapshot]_vars

(* The receive thread, a caller of stop, and a caller of get competing   *)
(* for the lock                                                           *)
NextRx == RxThread \/ stop \/ StoreGets("r1")
RxSpec == Init /\ [][NextRx]_vars

(* The same with threads that keep running: cm.receive returns (a frame   *)
(* or a timeout), no thread stalls between two statements, and a thread   *)
(* waiting for the lock gets it when it is free again and again.          *)
RxFairSpec ==
    /\ RxSpec
    /\ WF_vars(_rx_loop_test)
    /\ WF_vars(_rx_loop_receive)
    /\ SF_vars(update_acquire)
    /\ WF_vars(update_write)
    /\ WF_vars(update_release)
    /\ WF_vars(_rx_loop_sleep)
    /\ WF_vars(get_read("r1"))
    /\ WF_vars(reader_release("r1"))

-----------------------------------------------------------------------------

Phases ==
    \/ tank_oxidizer_call
    \/ tank_oxidizer_poll
    \/ tank_fuel_call
    \/ tank_fuel_poll
    \/ heat_oxidizer_call
    \/ heat_oxidizer_poll
    \/ heat_oxidizer_heater_off
    \/ heat_oxidizer_exit
    \/ ignition_sequence_call
    \/ ignition_sequence_check_fuel_intake
    \/ ignition_sequence_check_oxidizer_intake
    \/ ignition_sequence_check_pressure
    \/ ignition_sequence_open_fuel_main
    \/ ignition_sequence_stagger_1
    \/ ignition_sequence_open_oxidizer_main
    \/ ignition_sequence_stagger_2
    \/ ignition_sequence_enable_igniter
    \/ ignition_sequence_boost
    \/ climb_and_detect_apogee_call
    \/ climb_and_detect_apogee_start
    \/ climb_and_detect_apogee_arm
    \/ climb_and_detect_apogee_track_start
    \/ climb_and_detect_apogee_track
    \/ descent_and_chute_call
    \/ descent_and_chute_sample_1
    \/ descent_and_chute_sample_2
    \/ descent_and_chute_decide
    \/ descent_and_chute_landing_1
    \/ descent_and_chute_landing_2

Next == Phases \/ _rx_loop \/ Returned
Spec == Init /\ [][Next]_vars

NextMission == Phases \/ _rx_loop \/ full_auto_mission
MissionSpec == InitMission /\ [][NextMission]_vars

(* The mission with a controller thread that keeps running: a poll of a    *)
(* tanking loop that stays possible is eventually made.                    *)
TankingSpec ==
    /\ MissionSpec
    /\ WF_vars(tank_oxidizer_poll)
    /\ WF_vars(tank_fuel_poll)

(* ignition_sequence with the receive thread unrestricted on the keys it   *)
(* reads: a feed frame of an intake position or of the oxidizer pressure   *)
(* is stored by its callback at any point, also after the key was checked  *)
(* and during the two 200 ms sleeps.                                       *)
IgnitionKeys == {"fuel_intake_pos", "oxidizer_intake_pos", "oxidizer_pressure"}

_rx_loop_ignition ==
    /\ \E key \in IgnitionKeys : \E value \in FeedValues(key) :
          StoreUpdate(key, value)
    /\ UNCHANGED <<state, apogee_alt, apogee_time, landed, cmds, now, slept,
                   phase, pc, loc, step, calls, entry, client>>

NextIgnition ==
    \/ ignition_sequence_call
    \/ ignition_sequence_check_fuel_intake
    \/ ignition_sequence_check_oxidizer_intake
    \/ ignition_sequence_check_pressure
    \/ ignition_sequence_open_fuel_main
    \/ ignition_sequence_stagger_1
    \/ ignition_sequence_open_oxidizer_main
    \/ ignition_sequence_stagger_2
    \/ ignition_sequence_enable_igniter
    \/ ignition_sequence_boost
    \/ _rx_loop_ignition
    \/ Returned
IgnitionSpec == Init /\ [][NextIgnition]_vars

-----------------------------------------------------------------------------
(* Properties *)

ServoOpen(servo_name) ==
    Frame("set_servo_position", servo_name, servo_open_pos[servo_name])
RelayOpen(relay_name) == Frame("relay_open", relay_name, None)
RelayClose(relay_name) == Frame("relay_close", relay_name, None)

Sends(frame) == cmds' = Append(cmds, frame)
SentInCall == SubSeq(cmds, entry.ncmds + 1, Len(cmds))
Count(frame) == Cardinality({i \in 1..Len(cmds) : cmds[i] = frame})
ControllerStep == data' = data

(* C1: a phase method invoked while the state is ABORT leaves the state    *)
(* ABORT and sends no servo or relay command.                              *)
C1_AbortEntryIsInert ==
    (phase # "none" /\ entry.state = "ABORT")
        => (state = "ABORT" /\ Len(cmds) = entry.ncmds)

C3_IgnitionOrder ==
    [][/\ Sends(RelayOpen("igniter")) =>
            /\ SentInCall = <<ServoOpen("fuel_main"), ServoOpen("oxidizer_main")>>
            /\ slept = 2
            /\ state' # "BOOST"
       /\ Sends(ServoOpen("oxidizer_main")) =>
            /\ SentInCall = <<ServoOpen("fuel_main")>>
            /\ slept = 2
       /\ (state' = "BOOST" /\ state # "BOOST") =>
            /\ cmds' = cmds
            /\ SentInCall = <<ServoOpen("fuel_main"), ServoOpen("oxidizer_main"),
                              RelayOpen("igniter")>>]_vars

C3_Witness ==
    /\ Running("ignition_sequence", "returned")
    /\ state = "BOOST"
    /\ cmds[Len(cmds)] = RelayOpen("igniter")

(* C4: ignition_sequence entered in a non-ABORT state ends in BOOST if and *)
(* only if fuel_intake and oxidizer_intake both read as closed and the     *)
(* pressure read is in [40.0, 65.0]; otherwise it ends in ABORT having     *)
(* sent no command.  Each check decides on the value the store holds when  *)
(* it is read.                                                             *)
ReadsClosed(servo_name) ==
    /\ data[PosKey(servo_name)] # None
    /\ Abs(data[PosKey(servo_name)] - servo_closed_pos[servo_name]) < 5
ReadsPressure == IF data["oxidizer_pressure"] = None THEN 0
                 ELSE data["oxidizer_pressure"]
ReadsAltitude == IF data["altitude"] = None THEN 0 ELSE data["altitude"]

C4_IgnitionChecks ==
    [][ControllerStep =>
         /\ Running("ignition_sequence", "check_fuel_intake") =>
              IF ReadsClosed("fuel_intake")
              THEN pc' = "check_oxidizer_intake" /\ state' = state
              ELSE pc' = "returned" /\ state' = "ABORT"
         /\ Running("ignition_sequence", "check_oxidizer_intake") =>
              IF ReadsClosed("oxidizer_intake")
              THEN pc' = "check_pressure" /\ state' = state
              ELSE pc' = "returned" /\ state' = "ABORT"
         /\ Running("ignition_sequence", "check_pressure") =>
              IF 400 <= ReadsPressure /\ ReadsPressure <= 650
              THEN pc' = "open_fuel_main" /\ state' = state
              ELSE pc' = "returned" /\ state' = "ABORT"]_vars

C4_IgnitionResult ==
    (Running("ignition_sequence", "returned") /\ entry.state # "ABORT") =>
        /\ state \in {"BOOST", "ABORT"}
        /\ state = "BOOST" <=>
             /\ loc.fuel_closed
             /\ loc.ox_closed
             /\ loc.p # None /\ 400 <= loc.p /\ loc.p <= 650
        /\ state = "ABORT" => SentInCall = <<>>

C4_IgnitionOutcome == []C4_IgnitionResult /\ C4_IgnitionChecks

C4_Witness ==
    /\ Running("ignition_sequence", "returned")
    /\ entry.state # "ABORT"
    /\ state = "ABORT"
    /\ loc.fuel_closed /\ loc.ox_closed /\ loc.p = 651

(* C5: heat_oxidizer leaves its poll loop at the first poll that reads a   *)
(* pressure in [55.0, 65.0] or >= 90.0, ends ARMED exactly when that poll  *)
(* was in the window and ABORT exactly when it was >= 90.0, and for any    *)
(* other reading stays HEATING and polls again.                            *)
C5_HeatPoll ==
    [][(ControllerStep /\ Running("heat_oxidizer", "poll")) =>
         IF 550 <= ReadsPressure /\ ReadsPressure <= 650
         THEN pc' = "heater_off" /\ state' = "HEATING"
         ELSE IF ReadsPressure >= 900
         THEN pc' = "heater_off" /\ state' = "ABORT"
         ELSE pc' = "poll" /\ state' = "HEATING"]_vars

C5_HeatResult ==
    /\ Running("heat_oxidizer", "poll") => state = "HEATING"
    /\ Running("heat_oxidizer", "returned") =>
         /\ state \in {"ARMED", "ABORT"}
         /\ state = "ARMED" <=> (550 <= loc.p /\ loc.p <= 650)
         /\ state = "ABORT" <=> loc.p >= 900

C5_HeatOutcome == []C5_HeatResult /\ C5_HeatPoll

C5_Witness ==
    /\ Running("heat_oxidizer", "returned")
    /\ state = "ABORT"
    /\ loc.p = 900

(* C6: every heat_oxidizer that returns has sent exactly one relay_open    *)
(* and then exactly one relay_close of oxidizer_heater, the close last;    *)
(* until the close is sent the phase has not exited.                       *)
C6_HeaterClosedOnExit ==
    /\ Running("heat_oxidizer", "returned") =>
         SentInCall = <<RelayOpen("oxidizer_heater"), RelayClose("oxidizer_heater")>>
    /\ (phase = "heat_oxidizer" /\ pc \in {"poll", "heater_off"}) =>
         SentInCall = <<RelayOpen("oxidizer_heater")>>

C6_Witness ==
    /\ Running("heat_oxidizer", "returned")
    /\ state = "ABORT"
    /\ SentInCall = <<RelayOpen("oxidizer_heater"), RelayClose("oxidizer_heater")>>

(* C7: in descent_and_chute with a recorded apogee of at least 5.0 m, each *)
(* descent poll sends the parachute relay_open exactly when                *)
(* (|speed| <= 30.0 m/s and altitude < 200.0 m) or more than 9.0 s have    *)
(* passed since apogee; the state becomes CHUTE_DEPLOYED only in the step  *)
(* that sends it, and it is sent once.                                     *)
C7_Decide ==
    [][/\ (ControllerStep /\ Running("descent_and_chute", "decide")) =>
            IF \/ loc.v_down <= 3000 /\ ReadsAltitude < 2000
               \/ now - apogee_time > 90
            THEN Sends(RelayOpen("parachute")) /\ state' = "CHUTE_DEPLOYED"
            ELSE cmds' = cmds /\ state' = "DESCENT"
       /\ (state' = "CHUTE_DEPLOYED" /\ state # "CHUTE_DEPLOYED") =>
            Sends(RelayOpen("parachute"))
       /\ Sends(RelayOpen("parachute")) =>
            Running("descent_and_chute", "decide")]_vars

C7_Once ==
    Count(RelayOpen("parachute")) =
        IF state = "CHUTE_DEPLOYED" \/ (state = "LANDED" /\ apogee_alt >= 50)
        THEN 1 ELSE 0

C7_ChuteDeploy == []C7_Once /\ C7_Decide

C7_Witness ==
    /\ Running("descent_and_chute", "landing_1")
    /\ state = "CHUTE_DEPLOYED"
    /\ loc.v_down = 3000
    /\ now - apogee_time < 90

(* C8: in a mission, the parachute relay_open is sent no later than 10 s   *)
(* after the recorded apogee time, whatever telemetry arrives: the state   *)
(* is not DESCENT later than that, and the command is not sent later.      *)
C8_ChuteWithin10s ==
    /\ [](state = "DESCENT" => now - apogee_time <= 100)
    /\ [][Sends(RelayOpen("parachute")) => now - apogee_time <= 100]_vars

C8_Witness ==
    /\ Running("descent_and_chute", "landing_1")
    /\ state = "CHUTE_DEPLOYED"
    /\ loc.v_down # None
    /\ now - apogee_time = 95

C10_LowApogeeLandsDirectly ==
    (/\ phase = "descent_and_chute"
     /\ entry.state # "ABORT"
     /\ (apogee_alt = None \/ apogee_alt < 50))
        => /\ pc = "returned"
           /\ state = "LANDED"
           /\ landed
           /\ SentInCall = <<>>

C10_Witness ==
    /\ Running("descent_and_chute", "returned")
    /\ entry.state = "APOGEE"
    /\ apogee_alt = 45
    /\ state = "LANDED" /\ landed
    /\ Count(RelayOpen("parachute")) = 0

(* C11: in the tracking loop of climb_and_detect_apogee each poll declares *)
(* apogee exactly when its reading is strictly below the last tracked one  *)
(* (an equal reading keeps ASCENT and polls again); the step that declares *)
(* it sets apogee_alt to that last tracked reading, which is the highest   *)
(* reading of the tracking loop, sets apogee_time to the clock, and sets   *)
(* APOGEE; the state becomes APOGEE in no other step, the tracking loop is *)
(* entered only from the read that follows the arming loop, and the arming *)
(* loop is left only by a poll that read more than 1.0 m above the         *)
(* starting altitude.                                                      *)
C11_ApogeeDetection ==
    [][/\ (ControllerStep /\ Running("climb_and_detect_apogee", "track")) =>
            IF ReadsAltitude < loc.last_alt
            THEN /\ apogee_alt' = loc.last_alt
                 /\ apogee_alt' = Max(loc.peak, ReadsAltitude)
                 /\ apogee_time' = now' /\ apogee_time' # None
                 /\ state' = "APOGEE"
                 /\ pc' = "returned"
            ELSE /\ state' = "ASCENT"
                 /\ pc' = "track"
                 /\ loc'.last_alt = ReadsAltitude
                 /\ UNCHANGED <<apogee_alt, apogee_time>>
       /\ (state' = "APOGEE" /\ state # "APOGEE") =>
            Running("climb_and_detect_apogee", "track")
       /\ (pc' = "track" /\ pc # "track") =>
            Running("climb_and_detect_apogee", "track_start")
       /\ (pc' = "track_start" /\ pc # "track_start") =>
            /\ Running("climb_and_detect_apogee", "arm")
            /\ ReadsAltitude - loc.start_alt > 10]_vars

C11_Witness ==
    /\ Running("climb_and_detect_apogee", "returned")
    /\ state = "APOGEE"
    /\ loc.start_alt = 10
    /\ loc.last_alt = 50
    /\ apogee_alt = 50
    /\ apogee_time = now
    /\ ReadsAltitude = 45

(* C12: once the parachute is deployed, each pair of altitude samples      *)
(* taken 1.0 s apart sets LANDED and landed exactly when the two differ by *)
(* less than 0.5 m, and otherwise leaves CHUTE_DEPLOYED and samples again; *)
(* when descent_and_chute is running, the state becomes LANDED only from   *)
(* CHUTE_DEPLOYED, after the parachute command.                            *)
C12_Landing ==
    [][/\ (ControllerStep /\ Running("descent_and_chute", "landing_2")) =>
            /\ state = "CHUTE_DEPLOYED"
            /\ now' - now = 10
            /\ IF Abs(ReadsAltitude - loc.alt1) < 5
               THEN state' = "LANDED" /\ landed' /\ pc' = "returned"
               ELSE state' = "CHUTE_DEPLOYED" /\ ~landed' /\ pc' = "landing_1"
       /\ (state' = "LANDED" /\ state # "LANDED"
             /\ phase = "descent_and_chute") =>
            /\ Running("descent_and_chute", "landing_2")
            /\ state = "CHUTE_DEPLOYED"
            /\ Count(RelayOpen("parachute")) = 1
       /\ (landed' /\ ~landed) => state' = "LANDED"]_vars

C12_Witness ==
    /\ Running("descent_and_chute", "returned")
    /\ state = "LANDED" /\ landed
    /\ cmds[Len(cmds)] = RelayOpen("parachute")
    /\ now - apogee_time = 25
    /\ slept = 3

(* C13: in a run of full_auto_mission the six phase methods are invoked in *)
(* the order tank_oxidizer, tank_fuel, heat_oxidizer, ignition_sequence,   *)
(* climb_and_detect_apogee, descent_and_chute, each from the state the     *)
(* phase before it ends in when it does not abort; every change of state   *)
(* goes to the next state of TANKING_OX, OX_READY, TANKING_FUEL,           *)
(* FUEL_READY, HEATING, ARMED, IGNITION_SEQUENCE, BOOST, ASCENT, APOGEE,   *)
(* DESCENT, CHUTE_DEPLOYED, LANDED (or from APOGEE straight to LANDED) or  *)
(* to ABORT, and nothing follows ABORT; COAST is never the state; and when *)
(* the mission has returned the state is LANDED or ABORT.                  *)
MissionPhases ==
    <<"tank_oxidizer", "tank_fuel", "heat_oxidizer", "ignition_sequence",
      "climb_and_detect_apogee", "descent_and_chute">>
MissionStates ==
    <<"IDLE", "TANKING_OX", "OX_READY", "TANKING_FUEL", "FUEL_READY",
      "HEATING", "ARMED", "IGNITION_SEQUENCE", "BOOST", "ASCENT", "APOGEE",
      "DESCENT", "CHUTE_DEPLOYED", "LANDED">>
StateBeforePhase ==
    <<"IDLE", "OX_READY", "FUEL_READY", "ARMED", "BOOST", "APOGEE">>
Follows(s, t) ==
    \/ \E i \in 1..(Len(MissionStates) - 1) :
          MissionStates[i] = s /\ MissionStates[i + 1] = t
    \/ s = "APOGEE" /\ t = "LANDED"
    \/ s # "ABORT" /\ t = "ABORT"

C13_MissionOrder ==
    /\ [](state # "COAST")
    /\ [](pc = "done" => state \in {"LANDED", "ABORT"})
    /\ [][/\ state' # state => Follows(state, state')
          /\ (phase = "none" /\ phase' # "none") =>
               /\ phase' = MissionPhases[step]
               /\ state = StateBeforePhase[step]
               /\ step' = step
          /\ step' # step =>
               /\ step' = step + 1
               /\ pc = "returned"
               /\ phase = MissionPhases[step]
               /\ state # "ABORT"]_vars

C13_Witness ==
    /\ pc = "done"
    /\ step = 6
    /\ state = "LANDED"
    /\ Count(RelayOpen("parachute")) = 1
    /\ Len(cmds) = 10

(* C20: whenever climb_and_detect_apogee has ended in APOGEE, apogee_alt   *)
(* is not lower than the reading that ended the arming loop, and is more   *)
(* than 1.0 m above the starting altitude.                                 *)
C20_ApogeeNotBelowArming ==
    [][(state' = "APOGEE" /\ state # "APOGEE") =>
         /\ loc.arm_alt # None => apogee_alt' >= loc.arm_alt
         /\ apogee_alt' - loc.start_alt > 10]_vars

(* C19: tank_oxidizer (tank_fuel) sends the open-position command of its   *)
(* intake on invocation; each poll that reads a level below 100.0 leaves   *)
(* TANKING_OX (TANKING_FUEL), sends nothing and polls again, and each poll *)
(* that reads 100.0 or more sends the closed-position command, sets        *)
(* OX_READY (FUEL_READY) and returns; the phase never sets ABORT, returns  *)
(* in no other step, and a poll loop whose level stays at 100.0 or more    *)
(* eventually returns.                                                     *)
ServoClosed(servo_name) ==
    Frame("set_servo_position", servo_name, servo_closed_pos[servo_name])
ReadsLevel(key) == IF data[key] = None THEN 0 ELSE data[key]
TankPoll(name, servo_name, key, tanking, ready) ==
    /\ (phase = "none" /\ phase' = name) =>
         Sends(ServoOpen(servo_name)) /\ state' = tanking /\ pc' = "poll"
    /\ (ControllerStep /\ Running(name, "poll")) =>
         IF ReadsLevel(key) < 1000
         THEN cmds' = cmds /\ state' = tanking /\ pc' = "poll"
         ELSE Sends(ServoClosed(servo_name)) /\ state' = ready
              /\ pc' = "returned"
    /\ phase' = name => state' \in {tanking, ready}
TankLog(name, servo_name) ==
    /\ Running(name, "poll") => SentInCall = <<ServoOpen(servo_name)>>
    /\ Running(name, "returned") =>
         SentInCall = <<ServoOpen(servo_name), ServoClosed(servo_name)>>
TankReturns(name, key) ==
    [](Running(name, "poll") => <>(pc = "returned" \/ ReadsLevel(key) < 1000))

C19_Tanking ==
    /\ [](TankLog("tank_oxidizer", "oxidizer_intake")
            /\ TankLog("tank_fuel", "fuel_intake"))
    /\ [][/\ TankPoll("tank_oxidizer", "oxidizer_intake", "oxidizer_level",
                      "TANKING_OX", "OX_READY")
          /\ TankPoll("tank_fuel", "fuel_intake", "fuel_level",
                      "TANKING_FUEL", "FUEL_READY")]_vars
    /\ TankReturns("tank_oxidizer", "oxidizer_level")
    /\ TankReturns("tank_fuel", "fuel_level")

C19_Witness ==
    /\ Running("tank_fuel", "returned")
    /\ state = "FUEL_READY"
    /\ data["fuel_level"] = 1000
    /\ SentInCall = <<ServoOpen("fuel_intake"), ServoClosed("fuel_intake")>>

(* C14: with the receive thread calling update and readers calling get in  *)
(* any interleaving, every get returns the caller's default when no update *)
(* of its key has completed and otherwise the value of the last completed  *)
(* update of that key, hence only a value written for that key or the      *)
(* default; and no two threads are inside the store's critical section at  *)
(* the same time.                                                          *)
InCriticalSection ==
    {t \in Readers : rd[t].pc \in {"read", "release"}}
      \cup (IF rx.pc \in {"write", "release"} THEN {"rx"} ELSE {})
WrittenFor(key) ==
    {frame.value : frame \in {f \in InFrames :
        \/ f.kind = "sensor" /\ f.dev = key /\ f.dev \in Sensors
        \/ f.kind = "servo" /\ f.dev \in Servos /\ PosKey(f.dev) = key}}
GetReturns(t) ==
    /\ rd[t].pc = "read"
    /\ rd[t].op \in {"get", "servo_is_closed"}
    /\ rd'[t].pc = "release"

C14_LastWriteWins ==
    /\ [](Cardinality(InCriticalSection) <= 1)
    /\ [][\A t \in Readers : GetReturns(t) =>
            /\ rd'[t].ret = IF hist.completed[rd[t].key] = None
                            THEN rd[t].default
                            ELSE hist.completed[rd[t].key]
            /\ rd'[t].ret \in WrittenFor(rd[t].key) \cup {rd[t].default}]_vars

C14_Witness ==
    \E t \in Readers :
        /\ rd[t].pc = "release"
        /\ rd[t].op = "get"
        /\ rd[t].key = "fuel_intake_pos"
        /\ rd[t].ret = 5
        /\ hist.stored = 2
        /\ hist.completed["fuel_intake_pos"] = 5
        /\ hist.completed["altitude"] = None
        /\ rx.pc = "acquire"
        /\ rx.frame = Feed("servo", "fuel_intake", 4)

(* C15: the dictionary get_all returns holds exactly the entries of the    *)
(* completed updates at the time of the call; two such dictionaries taken  *)
(* with no update completed in between are equal; a returned dictionary    *)
(* its holder has not written to still reads as it was returned, whatever  *)
(* updates follow; and a holder writing to its dictionary changes neither  *)
(* the store nor another holder's dictionary nor what a later get_all      *)
(* returns.                                                                *)
Holders == {t \in Readers : rd[t].snap.ver >= 0}
Untouched == {t \in Holders : ~rd[t].snap.dirty}

C15_SnapshotIsCopy ==
    /\ [](\A t \in Untouched : ViewOf(rd[t].snap, data) = rd[t].snap.orig)
    /\ [](\A t, u \in Untouched :
            rd[t].snap.ver = rd[u].snap.ver =>
                ViewOf(rd[t].snap, data) = ViewOf(rd[u].snap, data))
    /\ [][\A t \in Readers :
            /\ (rd'[t].snap.dirty /\ ~rd[t].snap.dirty) =>
                 /\ data' = data
                 /\ \A u \in Holders \ {t} :
                      ViewOf(rd'[u].snap, data') = ViewOf(rd[u].snap, data)
            /\ (rd[t].pc = "read" /\ rd'[t].pc = "release") =>
                 ViewOf(rd'[t].snap, data') = hist.completed]_vars

C15_Witness ==
    /\ rd["r1"].snap.ver = 1
    /\ ~rd["r1"].snap.dirty
    /\ rd["r1"].snap.map["altitude"] = 10
    /\ rd["r2"].snap.ver = 2
    /\ rd["r2"].snap.dirty
    /\ rd["r2"].snap.map["altitude"] = 77
    /\ rd["r2"].snap.orig["altitude"] = 10
    /\ rd["r2"].snap.map["fuel_intake_pos"] = 4
    /\ rd["r1"].snap.map["fuel_intake_pos"] = None
    /\ hist.stored = 3
    /\ data["altitude"] = 11
    /\ data["fuel_intake_pos"] = 4

(* C16: every frame cm.receive delivers to the receive loop has exactly    *)
(* one effect.  A frame of a registered sensor feed is written under the   *)
(* sensor's name and a frame of a registered servo feed under              *)
(* <servo_name>_pos, changing no other key and not the queue; a frame no   *)
(* callback is registered for is appended to ack_queue and leaves the      *)
(* store as it is; a timeout changes neither and the loop goes on.  The    *)
(* frames received are at all times those stored plus those queued (plus   *)
(* the one in hand).                                                       *)
HasCallback(frame) ==
    \/ frame.kind = "sensor" /\ frame.dev \in Sensors
    \/ frame.kind = "servo" /\ frame.dev \in Servos
FeedKey(frame) ==
    IF frame.kind = "sensor" THEN frame.dev ELSE PosKey(frame.dev)
InHand == IF rx.pc \in {"acquire", "write", "release"} THEN 1 ELSE 0
Received(frame) ==
    /\ hist'.received = hist.received + 1
    /\ IF HasCallback(frame)
       THEN /\ rx' = [pc |-> "acquire", frame |-> frame]
            /\ ack_queue' = ack_queue
       ELSE /\ rx'.pc = "sleep"
            /\ ack_queue' = Append(ack_queue, frame)
TimedOut ==
    /\ hist'.received = hist.received
    /\ rx'.pc = "sleep"
    /\ ack_queue' = ack_queue

C16_OneEffectPerFrame ==
    /\ [](hist.received = hist.stored + Len(ack_queue) + InHand)
    /\ [][/\ (rx.pc = "receive" /\ rx' # rx) =>
               /\ data' = data
               /\ TimedOut \/ \E frame \in InFrames : Received(frame)
          /\ (rx.pc = "write" /\ rx' # rx) =>
               /\ HasCallback(rx.frame)
               /\ data' = [data EXCEPT ![FeedKey(rx.frame)] = rx.frame.value]
               /\ ack_queue' = ack_queue
          /\ (rx.pc = "release" /\ rx' # rx) =>
               hist'.stored = hist.stored + 1
          /\ data' # data => rx.pc = "write"
          /\ ack_queue' # ack_queue => rx.pc = "receive"
          /\ (rx.pc = "sleep" /\ rx' # rx) => rx'.pc = "test"]_vars

C16_Witness ==
    /\ rx.pc = "sleep"
    /\ hist.received = 3
    /\ hist.stored = 2
    /\ ack_queue = <<Feed("sensor", "angle", 7)>>
    /\ data["altitude"] = 11
    /\ data["fuel_intake_pos"] = NotANumber
    /\ \A k \in Keys \ ClientKeys : data[k] = None

(* C17: once stop() has set the flag, the receive loop passes its loop     *)
(* test no more: it completes the iteration it is in, which stores or      *)
(* queues at most one more frame, leaves the loop at its next test and     *)
(* does nothing afterwards; with threads that keep running it eventually   *)
(* exits.  stop() itself only sets the flag: it takes its step wherever    *)
(* the loop is and does not touch the loop or the lock.                    *)
C17_StopEndsLoop ==
    /\ [](hist.after_stop <= 1)
    /\ [][/\ stop_flag => ~(rx.pc = "test" /\ rx'.pc = "receive")
          /\ (stop_flag /\ rx.pc = "test" /\ rx' # rx) => rx'.pc = "exited"
          /\ rx.pc = "exited" =>
               rx' = rx /\ data' = data /\ ack_queue' = ack_queue
          /\ stop_flag => stop_flag'
          /\ (stop_flag' /\ ~stop_flag) =>
               rx' = rx /\ lock' = lock /\ data' = data]_vars
    /\ stop_flag ~> (rx.pc = "exited")

C17_Witness ==
    /\ stop_flag
    /\ rx.pc = "exited"
    /\ hist.after_stop = 1
    /\ hist.received = 2
    /\ Len(ack_queue) = 1

(* C18: servo_is_closed(name) returns false when no update of <name>_pos   *)
(* has completed or the latest stored value is not a number, and otherwise *)
(* returns true exactly when the latest stored position is less than 5     *)
(* units away from the configured closed position, on either side.         *)
C18_ServoIsClosed ==
    [][\A t \in Readers :
         (/\ rd[t].pc = "read"
          /\ rd[t].op = "servo_is_closed"
          /\ rd'[t].pc = "release") =>
            LET pos == hist.completed["fuel_intake_pos"]
                closed_target == servo_closed_pos["fuel_intake"]
            IN  rd'[t].closed =
                  IF pos = None \/ pos = NotANumber THEN FALSE
                  ELSE pos - closed_target < 5 /\ closed_target - pos < 5]_vars

C18_Witness ==
    /\ rd["r1"].pc = "release"
    /\ rd["r1"].op = "servo_is_closed"
    /\ ~rd["r1"].closed
    /\ hist.completed["fuel_intake_pos"] = 5
    /\ rd["r2"].pc = "idle"
    /\ rx.pc = "test"

(* C21: at the step of ignition_sequence that sends relay_open for the     *)
(* igniter, the values the TelemetryStore holds satisfy the ignition       *)
(* preconditions: fuel_intake_pos and oxidizer_intake_pos are each less    *)
(* than 5 units from their closed positions and oxidizer_pressure is in    *)
(* [40.0, 65.0].                                                           *)
StoredClosed(servo_name) ==
    /\ Coercible(data[PosKey(servo_name)])
    /\ Abs(data[PosKey(servo_name)] - servo_closed_pos[servo_name]) < 5

StoredPressureInWindow ==
    /\ Coercible(data["oxidizer_pressure"])
    /\ data["oxidizer_pressure"] >= 400
    /\ data["oxidizer_pressure"] <= 650

C21_PreconditionsAtIgnition ==
    [][(/\ Running("ignition_sequence", "enable_igniter")
        /\ cmds' = Append(cmds, RelayOpen("igniter"))) =>
            /\ StoredClosed("fuel_intake")
            /\ StoredClosed("oxidizer_intake")
            /\ StoredPressureInWindow]_vars

====
